---- MODULE Spec2Model ----
(***************************************************************************)
(* NetworkInterfaceReconciler (controllers/networkinterface_controller.go) *)
(* as a state machine: the Reconcile pass of each controller instance,     *)
(* step by step, against the resource store, the node's metadata and the   *)
(* host links, together with the PrivateNetwork update fan-out registered  *)
(* in SetupWithManager.                                                    *)
(***************************************************************************)
EXTENDS Integers, Sequences, FiniteSets, TLC

(* ------------------------------------------------------------------ *)
(* Bounds of the model.                                               *)
(* ------------------------------------------------------------------ *)

\* changes made by actors other than the controllers (provisioning flow,
\* operators, the node) over one behaviour
MaxEnv == 1
\* differences between the objects in the store at the start and objects
\* fresh from the provisioning flow
MaxVariants == 1
\* changes operators make to the PrivateNetworks over one behaviour
MaxNetChanges == 1
\* longest Spec.Routes list of a PrivateNetwork
MaxRoutes == 2

(* ------------------------------------------------------------------ *)
(* The objects.                                                       *)
(* ------------------------------------------------------------------ *)

Nodes == {"n1", "n2"}
PNs == {"pn1", "pn2"}
NICs == {"a", "b", "c"}

\* Spec.NodeName, immutable after creation
NodeName(x) == IF x = "a" THEN "n1" ELSE "n2"
\* the value of the privateNetworkLabel label
privateNetworkLabel(x) == IF x = "c" THEN "pn2" ELSE "pn1"
\* Spec.Address
Address(x) == CASE x = "a" -> "10.0.0.11/24"
                [] x = "b" -> "10.0.0.12/24"
                [] OTHER -> "10.0.1.13/24"
\* the hardware address the provisioning flow writes to Status.MacAddress
MacOf(x) == CASE x = "a" -> "mac:a" [] x = "b" -> "mac:b" [] OTHER -> "mac:c"

LinkNames == {"eth1", "eth2"}

\* time.Second * 1, in seconds
RequeueDelay == 1

(* ------------------------------------------------------------------ *)
(* Routes: PrivateNetwork.Spec.Routes entries and their parsing.      *)
(* ------------------------------------------------------------------ *)

\* a nil net.IP (the empty byte slice) and a nil *net.IPNet; a pointer that
\* is set is the one-element sequence of what it points to
NilIP == <<>>
NilIPNet == <<>>

\* the {To, Via} pairs an operator may write into Spec.Routes
RouteEntries ==
    { [To |-> "10.0.0.0/24", Via |-> "10.0.0.1"],
      [To |-> "10.0.1.0/24", Via |-> "10.0.0.1"],
      [To |-> "10.0.2.7/24", Via |-> "gateway"],
      [To |-> "10.0.3.0/33", Via |-> "10.0.0.1"],
      [To |-> "",            Via |-> "10.0.0.254"] }

\* sequences over S of length at most n
SeqUpTo(S, n) == UNION { [1..k -> S] : k \in 0..n }

RouteLists == SeqUpTo(RouteEntries, MaxRoutes)

\* net.ParseIP: the address, or nil when the text is no IP address
ParseIP(s) ==
    CASE s = "10.0.0.1"   -> <<10, 0, 0, 1>>
      [] s = "10.0.0.254" -> <<10, 0, 0, 254>>
      [] OTHER            -> NilIP

\* net.ParseCIDR: the address as written, the network it lies in, an error
ParseCIDR(s) ==
    CASE s = "10.0.0.0/24" ->
            [ip |-> <<10, 0, 0, 0>>, network |-> <<10, 0, 0, 0>>, ones |-> 24, err |-> FALSE]
      [] s = "10.0.1.0/24" ->
            [ip |-> <<10, 0, 1, 0>>, network |-> <<10, 0, 1, 0>>, ones |-> 24, err |-> FALSE]
      [] s = "10.0.2.7/24" ->
            [ip |-> <<10, 0, 2, 7>>, network |-> <<10, 0, 2, 0>>, ones |-> 24, err |-> FALSE]
      [] OTHER ->
            [ip |-> NilIP, network |-> NilIP, ones |-> 0, err |-> TRUE]

\* netlink.ParseIPNet: net.ParseCIDR, its error returned with a nil network;
\* otherwise the address as written with the network's mask
ParseIPNet(s) ==
    LET r == ParseCIDR(s) IN
    IF r.err THEN [net |-> NilIPNet, err |-> TRUE]
    ELSE [net |-> << [IP |-> r.ip, Mask |-> r.ones] >>, err |-> FALSE]

\* the loop with the new Route put in front of the slice instead of behind
RECURSIVE BuildRoutesPrepend(_, _, _)
BuildRoutesPrepend(entries, i, routes) ==
    IF i > Len(entries) THEN [routes |-> routes, err |-> FALSE]
    ELSE IF ParseIPNet(entries[i].To).err THEN [routes |-> routes, err |-> TRUE]
    ELSE BuildRoutesPrepend(entries, i + 1,
            << [To |-> ParseIPNet(entries[i].To).net, Via |-> ParseIP(entries[i].Via)] >>
                \o routes)

\* one turn of the loop over pnet.Spec.Routes: the Route appended for an entry
RouteOf(route) == [To |-> ParseIPNet(route.To).net, Via |-> ParseIP(route.Via)]

\* the loop going on to the next entry, not returning, when a To does not parse
RECURSIVE BuildRoutesSkipping(_, _, _)
BuildRoutesSkipping(entries, i, routes) ==
    IF i > Len(entries) THEN [routes |-> routes, err |-> FALSE]
    ELSE IF ParseIPNet(entries[i].To).err THEN BuildRoutesSkipping(entries, i + 1, routes)
    ELSE BuildRoutesSkipping(entries, i + 1, Append(routes, RouteOf(entries[i])))

\* the loop over pnet.Spec.Routes from entry i on, routes being the slice built
\* so far: it stops at the first entry whose To does not parse
RECURSIVE BuildRoutes(_, _, _)
BuildRoutes(entries, i, routes) ==
    IF i > Len(entries) THEN [routes |-> routes, err |-> FALSE]
    ELSE IF ParseIPNet(entries[i].To).err THEN [routes |-> routes, err |-> TRUE]
    ELSE BuildRoutes(entries, i + 1, Append(routes, RouteOf(entries[i])))

(* ------------------------------------------------------------------ *)
(* State.                                                             *)
(* ------------------------------------------------------------------ *)

VARIABLES
    store,      \* the NetworkInterface objects of the resource store, by name
    pnets,      \* the PrivateNetwork objects of the resource store, by name
    attached,   \* the NetworkInterfaces whose interface the metadata of their node lists
    hostLink,   \* the name of the host link of each NetworkInterface's hardware address
    alive,      \* the nodes whose controller process is running
    queue,      \* per controller, the keys waiting in its work queue
    events,     \* per controller, the PrivateNetwork events not yet handled
    pass,       \* per controller, the Reconcile call in progress or last returned
    prev,       \* per controller, the Reconcile call returned before that one
    fanout,     \* per controller, what its last UpdateFunc call did
    tornDown,   \* the NetworkInterfaces for whose address TearDownLink has succeeded
    marked,     \* the NetworkInterfaces created with the finalizer marker
    envLeft,    \* changes the other actors may still make
    netLeft     \* changes operators may still make to the PrivateNetworks

vars == <<store, pnets, attached, hostLink, alive, queue, events, pass, prev,
          fanout, tornDown, marked, envLeft, netLeft>>

\* the absence of a NetworkInterface named x
NoNIC(x) ==
    [name |-> x, exists |-> FALSE, mac |-> "", linkName |-> "", fin |-> FALSE,
     otherFin |-> FALSE, del |-> FALSE, owner |-> <<>>, rv |-> 0]

\* a NetworkInterface as the provisioning flow leaves it once the interface is
\* attached: finalizer set, owned by its PrivateNetwork, link not yet resolved
Provisioned(x) ==
    [name |-> x, exists |-> TRUE, mac |-> MacOf(x), linkName |-> "", fin |-> TRUE,
     otherFin |-> FALSE, del |-> FALSE, owner |-> << privateNetworkLabel(x) >>, rv |-> 1]

\* the ways an object of the store differs from that at start
Variants == {"no mac", "no finalizer", "other finalizer", "no owner"}

Vary(nic, v) ==
    CASE v = "no mac"          -> [nic EXCEPT !.mac = ""]
      [] v = "no finalizer"    -> [nic EXCEPT !.fin = FALSE]
      [] v = "other finalizer" -> [nic EXCEPT !.otherFin = TRUE]
      [] v = "no owner"        -> [nic EXCEPT !.owner = <<>>]

RECURSIVE VaryAll(_, _)
VaryAll(nic, vs) ==
    IF vs = {} THEN nic
    ELSE LET v == CHOOSE w \in vs : TRUE IN VaryAll(Vary(nic, v), vs \ {v})

\* the stores holding the NetworkInterfaces S, all Provisioned but for at
\* most MaxVariants differences
InitStores(S) ==
    { [x \in NICs |-> IF x \in S
                      THEN VaryAll(Provisioned(x), {d[2] : d \in {e \in D : e[1] = x}})
                      ELSE NoNIC(x)] :
        D \in { E \in SUBSET (S \X Variants) : Cardinality(E) <= MaxVariants } }

NoResult == [kind |-> "none", after |-> 0]

IdlePass ==
    [pc |-> "idle", req |-> "", got |-> NoNIC(""), nic |-> NoNIC(""), md |-> {}, linkName |-> "",
     pn |-> <<>>, routes |-> <<>>, calls |-> <<>>, err |-> "", res |-> NoResult, env0 |-> 0]

NoPrev == [req |-> "", calls |-> <<>>, res |-> NoResult, env0 |-> 0]

NoFanout == [pn |-> "", listed |-> FALSE, added |-> <<>>]

\* one call to the store, the Link Synchronizer or the Metadata Provider
Call(op, on, arg, ok) == [op |-> op, on |-> on, arg |-> arg, ok |-> ok]

\* the PrivateNetworks at the start, each with one route
InitNets ==
    [n \in PNs |->
        [exists |-> TRUE, routes |-> << [To |-> "10.0.0.0/24", Via |-> "10.0.0.1"] >>]]

InitRest(S) ==
    /\ attached = NICs
    /\ hostLink = [x \in NICs |-> "eth1"]
    /\ queue = [c \in Nodes |-> IF c \in alive THEN S ELSE {}]
    /\ events = [c \in Nodes |-> {}]
    /\ pass = [c \in Nodes |-> IdlePass]
    /\ prev = [c \in Nodes |-> NoPrev]
    /\ fanout = [c \in Nodes |-> NoFanout]
    /\ tornDown = {}
    /\ marked = { x \in NICs : store[x].fin }
    /\ envLeft = MaxEnv
    /\ netLeft = MaxNetChanges

\* one controller and one NetworkInterface, a of node n1: the controller runs
\* on n1, or on n2 and a is foreign to it
Init ==
    /\ alive \in {{"n1"}, {"n2"}}
    /\ store \in InitStores({"a"})
    /\ pnets = InitNets
    /\ InitRest({"a"})

\* one controller and the NetworkInterfaces of two networks, the object of
\* the second network being there or not
InitFanout ==
    /\ alive = {"n1"}
    /\ store \in InitStores(NICs)
    /\ pnets \in {InitNets, [InitNets EXCEPT !["pn2"] = [exists |-> FALSE, routes |-> <<>>]]}
    /\ InitRest(NICs)

\* the same, the controller having worked off its queue before
InitFanoutIdle ==
    /\ alive = {"n1"}
    /\ store \in InitStores(NICs)
    /\ pnets \in {InitNets, [InitNets EXCEPT !["pn2"] = [exists |-> FALSE, routes |-> <<>>]]}
    /\ InitRest({})

\* x with deletion requested: DeletionTimestamp set, kept by its finalizers
Deleting(nic) == [nic EXCEPT !.del = TRUE, !.rv = @ + 1]

\* one controller on each node, and one NetworkInterface of each node, as
\* provisioned
InitPartition ==
    /\ alive = Nodes
    /\ store = [x \in NICs |-> IF x \in {"a", "b"} THEN Provisioned(x) ELSE NoNIC(x)]
    /\ pnets = InitNets
    /\ InitRest({"a", "b"})

\* one controller, on node n1, started while its NetworkInterface a, with or
\* without its hardware address, is already terminating or not
InitLive ==
    /\ alive = {"n1"}
    /\ \E nic \in {Provisioned("a"), Vary(Provisioned("a"), "no mac")} :
          \E first \in {nic, Deleting(nic)} :
              store = [x \in NICs |-> IF x = "a" THEN first ELSE NoNIC(x)]
    /\ pnets = InitNets
    /\ InitRest({"a"})

\* one controller, on node n1, started while its NetworkInterface a, with or
\* without the finalizer of another controller, is already terminating or not
InitWrites ==
    /\ alive = {"n1"}
    /\ \E nic \in {Provisioned("a"), Vary(Provisioned("a"), "other finalizer")} :
          \E first \in {nic, Deleting(nic)} :
              store = [x \in NICs |-> IF x = "a" THEN first ELSE NoNIC(x)]
    /\ pnets = InitNets
    /\ InitRest({"a"})

\* one controller, on node n1, its NetworkInterface a as provisioned, and any
\* routes in the PrivateNetwork that owns it
InitRoutes ==
    /\ alive = {"n1"}
    /\ store = [x \in NICs |-> IF x = "a" THEN Provisioned(x) ELSE NoNIC(x)]
    /\ \E routes \in RouteLists : pnets = [InitNets EXCEPT !["pn1"].routes = routes]
    /\ InitRest({"a"})

(* ------------------------------------------------------------------ *)
(* The resource store and the actors other than the controllers.      *)
(* ------------------------------------------------------------------ *)

\* the watch on NetworkInterface (For(&NetworkInterface{})): a change of object
\* x puts its key in the queue of every running controller
Notified(q, x) == [c \in Nodes |-> IF c \in alive THEN q[c] \cup {x} ELSE q[c]]

\* the watch on PrivateNetwork: an event of the given type for n reaches the
\* handler of every running controller
Delivered(ev, type, n) ==
    [c \in Nodes |-> IF c \in alive THEN ev[c] \cup {<<type, n>>} ELSE ev[c]]

\* the store drops a terminating object when its last finalizer is gone
Settled(nic) ==
    IF nic.del /\ ~nic.fin /\ ~nic.otherFin THEN NoNIC(nic.name) ELSE nic

\* the provisioning flow records the hardware address of the attached interface
SetMacAddress(x) ==
    /\ envLeft > 0
    /\ store[x].exists /\ store[x].mac = ""
    /\ store' = [store EXCEPT ![x].mac = MacOf(x), ![x].rv = @ + 1]
    /\ queue' = Notified(queue, x)
    /\ envLeft' = envLeft - 1
    /\ UNCHANGED <<marked, pnets, attached, hostLink, alive, events, pass, prev, fanout, tornDown, netLeft>>

\* a client asks for the deletion of x: the store sets DeletionTimestamp, or
\* drops the object at once when it has no finalizer
RequestDelete(x) ==
    /\ envLeft > 0
    /\ store[x].exists /\ ~store[x].del
    /\ store' = [store EXCEPT ![x] = Settled([store[x] EXCEPT !.del = TRUE, !.rv = @ + 1])]
    /\ queue' = Notified(queue, x)
    /\ envLeft' = envLeft - 1
    /\ UNCHANGED <<marked, pnets, attached, hostLink, alive, events, pass, prev, fanout, tornDown, netLeft>>

\* the controller that owns the other finalizer of a terminating x clears it
RemoveOtherFinalizer(x) ==
    /\ envLeft > 0
    /\ store[x].exists /\ store[x].del /\ store[x].otherFin
    /\ store' = [store EXCEPT ![x] = Settled([store[x] EXCEPT !.otherFin = FALSE, !.rv = @ + 1])]
    /\ queue' = Notified(queue, x)
    /\ envLeft' = envLeft - 1
    /\ UNCHANGED <<marked, pnets, attached, hostLink, alive, events, pass, prev, fanout, tornDown, netLeft>>

\* the interface of x is detached from, or attached to, its node
SetAttached(x) ==
    /\ envLeft > 0
    /\ attached' = IF x \in attached THEN attached \ {x} ELSE attached \cup {x}
    /\ envLeft' = envLeft - 1
    /\ UNCHANGED <<marked, store, pnets, hostLink, alive, queue, events, pass, prev, fanout, tornDown, netLeft>>

\* the host gives the link of x's hardware address another name
RenameLink(x, l) ==
    /\ envLeft > 0
    /\ l # hostLink[x]
    /\ hostLink' = [hostLink EXCEPT ![x] = l]
    /\ envLeft' = envLeft - 1
    /\ UNCHANGED <<marked, store, pnets, attached, alive, queue, events, pass, prev, fanout, tornDown, netLeft>>

\* an operator replaces Spec.Routes of PrivateNetwork n
UpdatePrivateNetwork(n, routes) ==
    /\ netLeft > 0
    /\ pnets[n].exists /\ routes # pnets[n].routes
    /\ pnets' = [pnets EXCEPT ![n].routes = routes]
    /\ events' = Delivered(events, "update", n)
    /\ netLeft' = netLeft - 1
    /\ UNCHANGED <<marked, store, attached, hostLink, alive, queue, pass, prev, fanout, tornDown,
                   envLeft>>

\* an operator deletes PrivateNetwork n
DeletePrivateNetwork(n) ==
    /\ netLeft > 0
    /\ pnets[n].exists
    /\ pnets' = [pnets EXCEPT ![n] = [exists |-> FALSE, routes |-> <<>>]]
    /\ events' = Delivered(events, "delete", n)
    /\ netLeft' = netLeft - 1
    /\ UNCHANGED <<marked, store, attached, hostLink, alive, queue, pass, prev, fanout, tornDown,
                   envLeft>>

\* an operator creates PrivateNetwork n again
CreatePrivateNetwork(n, routes) ==
    /\ netLeft > 0
    /\ ~pnets[n].exists
    /\ pnets' = [pnets EXCEPT ![n] = [exists |-> TRUE, routes |-> routes]]
    /\ events' = Delivered(events, "create", n)
    /\ netLeft' = netLeft - 1
    /\ UNCHANGED <<marked, store, attached, hostLink, alive, queue, pass, prev, fanout, tornDown,
                   envLeft>>

\* the periodic resync of the informer: the key of any object is queued again
Resync(c, x) ==
    /\ c \in alive
    /\ store[x].exists /\ x \notin queue[c]
    /\ queue' = [queue EXCEPT ![c] = @ \cup {x}]
    /\ UNCHANGED <<marked, store, pnets, attached, hostLink, alive, events, pass, prev, fanout,
                   tornDown, envLeft, netLeft>>

(* ------------------------------------------------------------------ *)
(* Reconcile, step by step. c is the controller, r.NodeName = c.      *)
(* ------------------------------------------------------------------ *)

\* the node test left out
NeverForeign(nic, c) == FALSE

\* the test made against the empty name: only unassigned objects are skipped
OnlyUnassigned(nic, c) == NodeName(nic.name) = ""

\* nic.Spec.NodeName != r.NodeName
IsForeign(nic, c) == NodeName(nic.name) # c

\* nic.Status.MacAddress == ""
AwaitingAddress(nic) == nic.mac = ""

\* ctrl.Result{}, nil in the place of the delayed requeue
ImmediateResult == [kind |-> "ok", after |-> 0]

\* ctrl.Result{RequeueAfter: time.Second * 1}, nil
AwaitingResult == [kind |-> "ok", after |-> RequeueDelay]

\* !nic.ObjectMeta.GetDeletionTimestamp().IsZero()
Terminating(nic) == nic.del

\* controllerutil.ContainsFinalizer(nic, finalizerName)
ContainsFinalizer(nic) == nic.fin

\* the finalizer left in place
KeepFinalizer(nic) == nic

\* controllerutil.RemoveFinalizer(nic, finalizerName)
RemoveFinalizer(nic) == [nic EXCEPT !.fin = FALSE]

\* a return after TearDownLink whatever its error
NeverUpdate(ok) == "return"

\* the error of TearDownLink logged and not returned
AlwaysUpdate(ok) == "update"

\* the test of TearDownLink's error: the pass goes on to the Update only
\* when the call succeeded
AfterTearDownLink(ok) == IF ok THEN "update" ELSE "return"

\* md.PrivateNICs, as GetMetadata returns it on node c
PrivateNICs(c) == { MacOf(y) : y \in { z \in attached : NodeName(z) = c } }

\* found starting out true
AlwaysFound(md, nic) == TRUE

\* the loop over md.PrivateNICs looking for nic.Status.MacAddress
Found(md, nic) == \E n \in md : n = nic.mac

\* the status replaced by one that holds the link name alone
WholeStatus(nic, linkName) == [nic EXCEPT !.linkName = linkName, !.mac = ""]

\* the assignment left out: the status is written as it was read
StaleLinkName(nic, linkName) == nic

\* nic.Status.LinkName = linkName
WithLinkName(nic, linkName) == [nic EXCEPT !.linkName = linkName]

\* the result a Reconcile call returns, and where the pass stands after it
Returned(p, res) == [p EXCEPT !.pc = "done", !.res = res]
Ok == [kind |-> "ok", after |-> 0]
Err == [kind |-> "err", after |-> 0]
Panic == [kind |-> "panic", after |-> 0]

Logged(p, call) == [p EXCEPT !.calls = Append(@, call)]

\* the work queue after a Reconcile call returned: a key is queued again
\* after an error (rate limited) and after RequeueAfter
Requeued(q, c, p) ==
    IF p.pc = "done" /\ (p.res.kind = "err" \/ p.res.after > 0)
    THEN [q EXCEPT ![c] = @ \cup {p.req}]
    ELSE q

\* what the store answers to a write of the copy nic: it refuses when the
\* object is gone (NotFound) or was changed since the copy was read (Conflict)
Accepts(nic) == store[nic.name].exists /\ store[nic.name].rv = nic.rv

\* the err of r.Client.Get for key x: none, NotFound, or another failure
\* (ok false: the call did not get its answer)
GetError(x, ok) ==
    IF ~ok THEN "Failed" ELSE IF ~store[x].exists THEN "NotFound" ELSE ""

\* the err of r.Client.Update and r.Client.Status().Update for the copy nic
WriteError(nic, ok) ==
    IF ~ok THEN "Failed"
    ELSE IF ~store[nic.name].exists THEN "NotFound"
    ELSE IF ~Accepts(nic) THEN "Conflict"
    ELSE ""

\* every error of the Get returned, NotFound too
KeepNotFound(err) == err

\* client.IgnoreNotFound(err)
IgnoreNotFound(err) == IF err = "NotFound" THEN "" ELSE err

\* return ctrl.Result{}, err
ResultOf(err) == IF err = "" THEN Ok ELSE Err

\* the error of a store write logged and not returned
WriteErrorLogged(err) == "next"

\* a return of success once the finalizer is cleared
ReturnAfterTeardown == "return"

\* the end of the block of the terminating case: nothing returns there, and
\* the pass goes on to r.MetadataAPI.GetMetadata()
AfterTeardown == "metadata"

\* the test of the err of r.Client.Update and r.Client.Status().Update: the
\* pass goes on to its next step only when the write succeeded
AfterWrite(err) == IF err = "" THEN "next" ELSE "return"

\* r.Client.Update: metadata and spec of the copy are stored, the status is not
Updated(nic) ==
    LET old == store[nic.name]
        new == [old EXCEPT !.fin = nic.fin, !.otherFin = nic.otherFin, !.owner = nic.owner]
    IN IF new = old THEN old ELSE [new EXCEPT !.rv = @ + 1]

\* r.Client.Status().Update: the status of the copy is stored, nothing else
StatusUpdated(nic) ==
    LET old == store[nic.name]
        new == [old EXCEPT !.mac = nic.mac, !.linkName = nic.linkName]
    IN IF new = old THEN old ELSE [new EXCEPT !.rv = @ + 1]

\* the call returned success after its last step, SyncRoutes
RanThrough(p) ==
    /\ p.res = Ok
    /\ Len(p.calls) > 0
    /\ p.calls[Len(p.calls)].op = "SyncRoutes"

\* lines 57-74: a key is taken from the queue, the object is read and the
\* NotFound, Foreign and AwaitingAddress cases return
ReconcileGet(c, x, ok) ==
    /\ c \in alive
    /\ pass[c].pc \in {"idle", "done"}
    /\ x \in queue[c]
    /\ LET nic == store[x]
           err == GetError(x, ok)
           p0 == [IdlePass EXCEPT !.req = x, !.env0 = envLeft + netLeft, !.err = err,
                                  !.calls = << Call("Get", x, <<>>, err = "") >>]
           p1 == IF err # "" THEN Returned(p0, ResultOf(IgnoreNotFound(err)))
                 ELSE LET p == [p0 EXCEPT !.got = nic, !.nic = nic] IN
                      IF IsForeign(nic, c) THEN Returned(p, Ok)
                      ELSE IF AwaitingAddress(nic) THEN Returned(p, AwaitingResult)
                      ELSE IF Terminating(nic) /\ ContainsFinalizer(nic)
                           THEN [p EXCEPT !.pc = "teardown"]
                           ELSE [p EXCEPT !.pc = "metadata"]
       IN /\ pass' = [pass EXCEPT ![c] = p1]
          /\ queue' = Requeued([queue EXCEPT ![c] = @ \ {x}], c, p1)
          /\ prev' = [prev EXCEPT ![c] =
                        IF pass[c].pc = "done" /\ RanThrough(pass[c])
                        THEN [req |-> pass[c].req, calls |-> pass[c].calls,
                              res |-> pass[c].res, env0 |-> pass[c].env0]
                        ELSE NoPrev]
    /\ UNCHANGED <<marked, store, pnets, attached, hostLink, alive, events, fanout, tornDown, envLeft, netLeft>>

\* lines 78-82: r.NICs.TearDownLink(nic.Status.MacAddress, nic.Spec.Address)
ReconcileTearDownLink(c, ok) ==
    /\ c \in alive
    /\ pass[c].pc = "teardown"
    /\ LET p0 == Logged(pass[c], Call("TearDownLink", pass[c].nic.mac, << Address(pass[c].req) >>, ok))
           p1 == IF AfterTearDownLink(ok) = "update"
                 THEN [p0 EXCEPT !.pc = "update"]
                 ELSE Returned(p0, Err)
       IN /\ pass' = [pass EXCEPT ![c] = p1]
          /\ queue' = Requeued(queue, c, p1)
    /\ tornDown' = IF ok THEN tornDown \cup {pass[c].req} ELSE tornDown
    /\ UNCHANGED <<marked, store, pnets, attached, hostLink, alive, events, prev, fanout, envLeft,
                   netLeft>>

\* lines 83-88: the finalizer is removed from the copy and the copy is written
ReconcileUpdate(c, ok) ==
    /\ c \in alive
    /\ pass[c].pc = "update"
    /\ LET x == pass[c].req
           nic == RemoveFinalizer(pass[c].nic)
           err == WriteError(nic, ok)
           done == err = ""
           new == Updated(nic)
           p0 == Logged([pass[c] EXCEPT !.nic = nic, !.err = err], Call("Update", x, <<>>, done))
           p1 == IF AfterWrite(err) = "next"
                 THEN LET p == [p0 EXCEPT !.nic = IF done THEN new ELSE nic] IN
                      IF AfterTeardown = "metadata"
                      THEN [p EXCEPT !.pc = "metadata"]
                      ELSE Returned(p, Ok)
                 ELSE Returned(p0, ResultOf(err))
       IN /\ pass' = [pass EXCEPT ![c] = p1]
          /\ store' = IF done THEN [store EXCEPT ![x] = Settled(new)] ELSE store
          /\ queue' = IF done /\ new # store[x]
                      THEN Notified(Requeued(queue, c, p1), x)
                      ELSE Requeued(queue, c, p1)
    /\ UNCHANGED <<marked, pnets, attached, hostLink, alive, events, prev, fanout, tornDown, envLeft, netLeft>>

\* lines 92-109: r.MetadataAPI.GetMetadata() and the search for the address
ReconcileGetMetadata(c, ok) ==
    /\ c \in alive
    /\ pass[c].pc = "metadata"
    /\ LET p0 == Logged(pass[c], Call("GetMetadata", c, <<>>, ok))
           p == [p0 EXCEPT !.md = PrivateNICs(c)]
           p1 == IF ~ok THEN Returned(p0, Err)
                 ELSE IF ~Found(p.md, p.nic) THEN Returned(p, Err)
                 ELSE [p EXCEPT !.pc = "linkname"]
       IN /\ pass' = [pass EXCEPT ![c] = p1]
          /\ queue' = Requeued(queue, c, p1)
    /\ UNCHANGED <<marked, store, pnets, attached, hostLink, alive, events, prev, fanout,
                   tornDown, envLeft, netLeft>>

\* nics.GetLinkName: the name of the host link that has the hardware address
GetLinkName(x) == hostLink[x]

\* lines 111-115: r.NICs.GetLinkName(nic.Status.MacAddress)
ReconcileGetLinkName(c, ok) ==
    /\ c \in alive
    /\ pass[c].pc = "linkname"
    /\ LET p0 == Logged(pass[c], Call("GetLinkName", pass[c].nic.mac, <<>>, ok))
           p1 == IF ~ok THEN Returned(p0, Err)
                 ELSE [p0 EXCEPT !.pc = "status", !.linkName = GetLinkName(p0.req)]
       IN /\ pass' = [pass EXCEPT ![c] = p1]
          /\ queue' = Requeued(queue, c, p1)
    /\ UNCHANGED <<marked, store, pnets, attached, hostLink, alive, events, prev, fanout,
                   tornDown, envLeft, netLeft>>

\* lines 117-122: nic.Status.LinkName = linkName and the status write
ReconcileStatusUpdate(c, ok) ==
    /\ c \in alive
    /\ pass[c].pc = "status"
    /\ LET x == pass[c].req
           nic == WithLinkName(pass[c].nic, pass[c].linkName)
           err == WriteError(nic, ok)
           done == err = ""
           new == StatusUpdated(nic)
           p0 == Logged([pass[c] EXCEPT !.nic = nic, !.err = err],
                        Call("UpdateStatus", x, << nic.linkName >>, done))
           p1 == IF AfterWrite(err) = "next"
                 THEN [p0 EXCEPT !.pc = "configure", !.nic = IF done THEN new ELSE nic]
                 ELSE Returned(p0, ResultOf(err))
       IN /\ pass' = [pass EXCEPT ![c] = p1]
          /\ store' = IF done THEN [store EXCEPT ![x] = new] ELSE store
          /\ queue' = IF done /\ new # store[x]
                      THEN Notified(Requeued(queue, c, p1), x)
                      ELSE Requeued(queue, c, p1)
    /\ UNCHANGED <<marked, pnets, attached, hostLink, alive, events, prev, fanout, tornDown, envLeft, netLeft>>

\* lines 124-128: r.NICs.ConfigureLink(nic.Status.MacAddress, nic.Spec.Address)
ReconcileConfigureLink(c, ok) ==
    /\ c \in alive
    /\ pass[c].pc = "configure"
    /\ LET p0 == Logged(pass[c], Call("ConfigureLink", pass[c].nic.mac, << Address(pass[c].req) >>, ok))
           p1 == IF ~ok THEN Returned(p0, Err) ELSE [p0 EXCEPT !.pc = "getpnet"]
       IN /\ pass' = [pass EXCEPT ![c] = p1]
          /\ queue' = Requeued(queue, c, p1)
    /\ UNCHANGED <<marked, store, pnets, attached, hostLink, alive, events, prev, fanout,
                   tornDown, envLeft, netLeft>>

\* lines 130-135: the owning PrivateNetwork is read by the name of
\* nic.OwnerReferences[0]; indexing an empty OwnerReferences panics, and
\* nothing in Reconcile recovers: the call does not return and the worker
\* goroutine takes the controller process down
ReconcileGetPrivateNetwork(c, ok) ==
    /\ c \in alive
    /\ pass[c].pc = "getpnet"
    /\ IF Len(pass[c].nic.owner) = 0
       THEN /\ pass' = [pass EXCEPT ![c] = Returned(pass[c], Panic)]
            /\ alive' = alive \ {c}
            /\ UNCHANGED queue
       ELSE LET n == pass[c].nic.owner[1]
                done == ok /\ pnets[n].exists
                p0 == Logged(pass[c], Call("GetPrivateNetwork", n, <<>>, done))
                p1 == IF done THEN [p0 EXCEPT !.pc = "routes", !.pn = pnets[n].routes]
                      ELSE Returned(p0, Err)
            IN /\ pass' = [pass EXCEPT ![c] = p1]
               /\ queue' = Requeued(queue, c, p1)
               /\ UNCHANGED alive
    /\ UNCHANGED <<marked, store, pnets, attached, hostLink, events, prev, fanout, tornDown, envLeft, netLeft>>

\* lines 137-149: the routes are built anew from pnet.Spec.Routes
ReconcileParseRoutes(c) ==
    /\ c \in alive
    /\ pass[c].pc = "routes"
    /\ LET r == BuildRoutes(pass[c].pn, 1, <<>>)
           p1 == IF r.err THEN Returned(pass[c], Err)
                 ELSE [pass[c] EXCEPT !.pc = "syncroutes", !.routes = r.routes]
       IN /\ pass' = [pass EXCEPT ![c] = p1]
          /\ queue' = Requeued(queue, c, p1)
    /\ UNCHANGED <<marked, store, pnets, attached, hostLink, alive, events, prev, fanout,
                   tornDown, envLeft, netLeft>>

\* lines 151-157: r.NICs.SyncRoutes(nic.Status.MacAddress, routes)
ReconcileSyncRoutes(c, ok) ==
    /\ c \in alive
    /\ pass[c].pc = "syncroutes"
    /\ LET p0 == Logged(pass[c], Call("SyncRoutes", pass[c].nic.mac, pass[c].routes, ok))
           p1 == IF ~ok THEN Returned(p0, Err) ELSE Returned(p0, Ok)
       IN /\ pass' = [pass EXCEPT ![c] = p1]
          /\ queue' = Requeued(queue, c, p1)
    /\ UNCHANGED <<marked, store, pnets, attached, hostLink, alive, events, prev, fanout,
                   tornDown, envLeft, netLeft>>

(* ------------------------------------------------------------------ *)
(* The PrivateNetwork watch registered by SetupWithManager.           *)
(* ------------------------------------------------------------------ *)

\* a List call without the label selector
AnyLabel(nic, n) == TRUE

\* client.MatchingLabels{privateNetworkLabel: e.MetaNew.GetName()}
MatchingLabels(nic, n) == privateNetworkLabel(nic.name) = n

\* r.Client.List with the label selector: the names of the stored
\* NetworkInterfaces labeled n, in the order of their keys
Listed(n) ==
    LET Match(x) == store[x].exists /\ MatchingLabels(store[x], n)
    IN SelectSeq(<<"a", "b", "c">>, Match)

\* UpdateFunc: the NetworkInterfaces labeled with the network are listed and
\* one request per item is added to the queue; a failed List adds nothing
UpdateFunc(c, n, ok) ==
    /\ c \in alive
    /\ <<"update", n>> \in events[c]
    /\ events' = [events EXCEPT ![c] = @ \ {<<"update", n>>}]
    /\ LET items == Listed(n)
       IN IF ok
          THEN /\ queue' = [queue EXCEPT ![c] = @ \cup { items[i] : i \in 1..Len(items) }]
               /\ fanout' = [fanout EXCEPT ![c] = [pn |-> n, listed |-> TRUE, added |-> items]]
          ELSE /\ UNCHANGED queue
               /\ fanout' = [fanout EXCEPT ![c] = [pn |-> n, listed |-> FALSE, added |-> <<>>]]
    /\ UNCHANGED <<marked, store, pnets, attached, hostLink, alive, pass, prev, tornDown, envLeft, netLeft>>

\* a handler that maps every event of the PrivateNetwork to its members, the
\* way an EnqueueRequestsFromMapFunc handler would
AllEventsFunc(c, type, n) ==
    /\ c \in alive
    /\ type \in {"create", "delete"}
    /\ <<type, n>> \in events[c]
    /\ events' = [events EXCEPT ![c] = @ \ {<<type, n>>}]
    /\ queue' = [queue EXCEPT ![c] = @ \cup { Listed(n)[i] : i \in 1..Len(Listed(n)) }]
    /\ UNCHANGED <<marked, store, pnets, attached, hostLink, alive, pass, prev, fanout,
                   tornDown, envLeft, netLeft>>

\* handler.Funcs sets no CreateFunc and no DeleteFunc: those events are dropped
CreateDeleteFunc(c, type, n) ==
    /\ c \in alive
    /\ type \in {"create", "delete"}
    /\ <<type, n>> \in events[c]
    /\ events' = [events EXCEPT ![c] = @ \ {<<type, n>>}]
    /\ UNCHANGED <<marked, store, pnets, attached, hostLink, alive, queue, pass, prev, fanout,
                   tornDown, envLeft, netLeft>>

(* ------------------------------------------------------------------ *)
(* The specification.                                                 *)
(* ------------------------------------------------------------------ *)

\* the NetworkInterfaces of the nodes that run a controller: the metadata and
\* the links of the other nodes are read by nobody
Hosted == { x \in NICs : NodeName(x) \in alive }

\* the PrivateNetworks that had members at the start
Labels == { privateNetworkLabel(x) : x \in { y \in NICs : store[y].rv > 0 } }

\* the route lists of at most one entry
ShortRouteLists == { l \in RouteLists : Len(l) <= 1 }

\* the reconciliation engine and the actors that change what it reads
Next ==
    \/ \E x \in NICs : SetMacAddress(x)
    \/ \E x \in NICs : RequestDelete(x)
    \/ \E x \in Hosted : SetAttached(x)
    \/ \E x \in Hosted, l \in LinkNames : RenameLink(x, l)
    \/ \E n \in Labels, routes \in ShortRouteLists : UpdatePrivateNetwork(n, routes)
    \/ \E c \in Nodes, x \in NICs : Resync(c, x)
    \/ \E c \in Nodes, x \in NICs, ok \in BOOLEAN : ReconcileGet(c, x, ok)
    \/ \E c \in Nodes, ok \in BOOLEAN : ReconcileTearDownLink(c, ok)
    \/ \E c \in Nodes, ok \in BOOLEAN : ReconcileUpdate(c, ok)
    \/ \E c \in Nodes, ok \in BOOLEAN : ReconcileGetMetadata(c, ok)
    \/ \E c \in Nodes, ok \in BOOLEAN : ReconcileGetLinkName(c, ok)
    \/ \E c \in Nodes, ok \in BOOLEAN : ReconcileStatusUpdate(c, ok)
    \/ \E c \in Nodes, ok \in BOOLEAN : ReconcileConfigureLink(c, ok)
    \/ \E c \in Nodes, ok \in BOOLEAN : ReconcileGetPrivateNetwork(c, ok)
    \/ \E c \in Nodes : ReconcileParseRoutes(c)
    \/ \E c \in Nodes, ok \in BOOLEAN : ReconcileSyncRoutes(c, ok)

Spec == Init /\ [][Next]_vars

\* the PrivateNetwork watch and the actors that change what it lists
NextFanout ==
    \/ \E x \in NICs : SetMacAddress(x)
    \/ \E x \in NICs : RequestDelete(x)
    \/ \E n \in PNs, routes \in ShortRouteLists : UpdatePrivateNetwork(n, routes)
    \/ \E n \in PNs : DeletePrivateNetwork(n)
    \/ \E n \in PNs, routes \in ShortRouteLists : CreatePrivateNetwork(n, routes)
    \/ \E c \in Nodes, n \in PNs, ok \in BOOLEAN : UpdateFunc(c, n, ok)
    \/ \E c \in Nodes, n \in PNs, type \in {"create", "delete"} : CreateDeleteFunc(c, type, n)

\* the route syncing of the engine under any routes of the PrivateNetwork
NextRoutes ==
    \/ \E n \in Labels, routes \in ShortRouteLists : UpdatePrivateNetwork(n, routes)
    \/ \E c \in Nodes, x \in NICs : Resync(c, x)
    \/ \E c \in Nodes, x \in NICs, ok \in BOOLEAN : ReconcileGet(c, x, ok)
    \/ \E c \in Nodes, ok \in BOOLEAN : ReconcileGetMetadata(c, ok)
    \/ \E c \in Nodes, ok \in BOOLEAN : ReconcileGetLinkName(c, ok)
    \/ \E c \in Nodes, ok \in BOOLEAN : ReconcileStatusUpdate(c, ok)
    \/ \E c \in Nodes, ok \in BOOLEAN : ReconcileConfigureLink(c, ok)
    \/ \E c \in Nodes, ok \in BOOLEAN : ReconcileGetPrivateNetwork(c, ok)
    \/ \E c \in Nodes : ReconcileParseRoutes(c)
    \/ \E c \in Nodes, ok \in BOOLEAN : ReconcileSyncRoutes(c, ok)

RouteSpec == InitRoutes /\ [][NextRoutes]_vars

\* the engine while other clients of the store write to the object it works on
NextWrites ==
    \/ \E x \in NICs : RequestDelete(x)
    \/ \E x \in NICs : RemoveOtherFinalizer(x)
    \/ \E c \in Nodes, x \in NICs : Resync(c, x)
    \/ \E c \in Nodes, x \in NICs, ok \in BOOLEAN : ReconcileGet(c, x, ok)
    \/ \E c \in Nodes, ok \in BOOLEAN : ReconcileTearDownLink(c, ok)
    \/ \E c \in Nodes, ok \in BOOLEAN : ReconcileUpdate(c, ok)
    \/ \E c \in Nodes, ok \in BOOLEAN : ReconcileGetMetadata(c, ok)
    \/ \E c \in Nodes, ok \in BOOLEAN : ReconcileGetLinkName(c, ok)
    \/ \E c \in Nodes, ok \in BOOLEAN : ReconcileStatusUpdate(c, ok)
    \/ \E c \in Nodes, ok \in BOOLEAN : ReconcileConfigureLink(c, ok)
    \/ \E c \in Nodes, ok \in BOOLEAN : ReconcileGetPrivateNetwork(c, ok)
    \/ \E c \in Nodes : ReconcileParseRoutes(c)
    \/ \E c \in Nodes, ok \in BOOLEAN : ReconcileSyncRoutes(c, ok)

WriteSpec == InitWrites /\ [][NextWrites]_vars

\* the engines of two nodes, each taking the keys of both
NextPartition ==
    \/ \E x \in NICs : RequestDelete(x)
    \/ \E c \in Nodes, x \in NICs, ok \in BOOLEAN : ReconcileGet(c, x, ok)
    \/ \E c \in Nodes, ok \in BOOLEAN : ReconcileTearDownLink(c, ok)
    \/ \E c \in Nodes, ok \in BOOLEAN : ReconcileUpdate(c, ok)
    \/ \E c \in Nodes, ok \in BOOLEAN : ReconcileGetMetadata(c, ok)
    \/ \E c \in Nodes, ok \in BOOLEAN : ReconcileGetLinkName(c, ok)
    \/ \E c \in Nodes, ok \in BOOLEAN : ReconcileStatusUpdate(c, ok)
    \/ \E c \in Nodes, ok \in BOOLEAN : ReconcileConfigureLink(c, ok)
    \/ \E c \in Nodes, ok \in BOOLEAN : ReconcileGetPrivateNetwork(c, ok)
    \/ \E c \in Nodes : ReconcileParseRoutes(c)
    \/ \E c \in Nodes, ok \in BOOLEAN : ReconcileSyncRoutes(c, ok)

PartitionSpec == InitPartition /\ [][NextPartition]_vars

\* a step of the Reconcile call of controller c, whatever its calls answer
Pass(c) ==
    \/ \E x \in NICs, ok \in BOOLEAN : ReconcileGet(c, x, ok)
    \/ \E ok \in BOOLEAN : ReconcileTearDownLink(c, ok)
    \/ \E ok \in BOOLEAN : ReconcileUpdate(c, ok)
    \/ \E ok \in BOOLEAN : ReconcileGetMetadata(c, ok)
    \/ \E ok \in BOOLEAN : ReconcileGetLinkName(c, ok)
    \/ \E ok \in BOOLEAN : ReconcileStatusUpdate(c, ok)
    \/ \E ok \in BOOLEAN : ReconcileConfigureLink(c, ok)
    \/ \E ok \in BOOLEAN : ReconcileGetPrivateNetwork(c, ok)
    \/ ReconcileParseRoutes(c)
    \/ \E ok \in BOOLEAN : ReconcileSyncRoutes(c, ok)

\* the engine of one node, a client that requests the deletion and the
\* provisioning flow
NextLive ==
    \/ \E x \in NICs : RequestDelete(x)
    \/ \E x \in NICs : SetMacAddress(x)
    \/ \E c \in Nodes : Pass(c)

\* the worker of a running controller takes the queued keys and runs each
\* Reconcile call to its return; the store answers the Get and the Update in
\* the end, and TearDownLink succeeds in the end; nothing is assumed of the
\* provisioning flow and of the clients
Fairness ==
    \A c \in Nodes :
        /\ WF_vars(Pass(c))
        /\ SF_vars(\E x \in NICs : ReconcileGet(c, x, TRUE))
        /\ SF_vars(ReconcileTearDownLink(c, TRUE))
        /\ SF_vars(ReconcileUpdate(c, TRUE))

LiveSpec == InitLive /\ [][NextLive]_vars /\ Fairness

FanoutSpec == InitFanout /\ [][NextFanout]_vars

FanoutIdleSpec == InitFanoutIdle /\ [][NextFanout]_vars

(* ------------------------------------------------------------------ *)
(* What a returned Reconcile call did.                                *)
(* ------------------------------------------------------------------ *)

Done(c) == pass[c].pc = "done"

\* the call read the object, which was on the controller's node and had its
\* hardware address: it got past the NotFound, Foreign and AwaitingAddress returns
PastFilters(c) ==
    /\ Done(c)
    /\ pass[c].got.exists
    /\ NodeName(pass[c].req) = c
    /\ pass[c].got.mac # ""

Ops(calls) == [i \in DOMAIN calls |-> calls[i].op]

Made(p, op) == \E i \in DOMAIN p.calls : p.calls[i].op = op

Succeeded(p, op) == \E i \in DOMAIN p.calls : p.calls[i].op = op /\ p.calls[i].ok

\* no other actor has changed anything since the call started
Quiet(p) == p.env0 = envLeft + netLeft

\* the finalizer marker of x is gone from the store
Cleared(x) == ~store[x].exists \/ ~store[x].fin

(* ------------------------------------------------------------------ *)
(* C1: teardown before deletion.                                      *)
(* ------------------------------------------------------------------ *)

\* the call was made for a local object that was terminating and carried
\* the finalizer marker
TerminatingPass(c) == PastFilters(c) /\ pass[c].got.del /\ pass[c].got.fin

\* when TearDownLink fails the call returns the error after it, the finalizer
\* stays, and the stored object is as it was read
TearDownFailure(c) ==
    LET p == pass[c] IN
    ~Succeeded(p, "TearDownLink") =>
        /\ p.res = Err
        /\ Ops(p.calls) = <<"Get", "TearDownLink">>
        /\ store[p.req].exists /\ store[p.req].fin
        /\ Quiet(p) => store[p.req] = p.got

\* C1 as claimed: in a pass on a terminating local object with the finalizer
\* marker, the finalizer is cleared in the store if and only if TearDownLink
\* succeeded in that pass, and a failed TearDownLink ends the pass with the
\* error, the finalizer and the stored object as they were
C1_AsClaimed ==
    \A c \in Nodes :
        TerminatingPass(c) =>
            /\ Cleared(pass[c].req) <=> Succeeded(pass[c], "TearDownLink")
            /\ TearDownFailure(c)

\* C1 amended: in a pass on a terminating local object with the finalizer
\* marker, the finalizer is cleared in the store if and only if TearDownLink
\* and the Update that follows it both succeeded in that pass; a failed
\* TearDownLink ends the pass with the error, no later step runs, and the
\* finalizer and the stored object are as they were
C1_TeardownBeforeDeletion ==
    \A c \in Nodes :
        TerminatingPass(c) =>
            /\ Cleared(pass[c].req) <=>
                   (Succeeded(pass[c], "TearDownLink") /\ Succeeded(pass[c], "Update"))
            /\ TearDownFailure(c)

\* a pass that tore the link down and cleared the finalizer
C1_Witness ==
    \E c \in Nodes :
        /\ TerminatingPass(c)
        /\ Succeeded(pass[c], "TearDownLink") /\ Succeeded(pass[c], "Update")
        /\ Cleared(pass[c].req)

(* ------------------------------------------------------------------ *)
(* C2: no removal before teardown.                                    *)
(* ------------------------------------------------------------------ *)

\* C2: a NetworkInterface created with the finalizer marker has lost the
\* marker, or is gone from the store, only if a TearDownLink call for its
\* hardware address has succeeded before
C2_RemovedOnlyAfterTeardown ==
    \A x \in marked : Cleared(x) => x \in tornDown

\* a marked object that the store has removed
C2_Witness ==
    \E x \in marked : ~store[x].exists /\ x \in tornDown

(* ------------------------------------------------------------------ *)
(* C3: idempotence.                                                   *)
(* ------------------------------------------------------------------ *)

\* Reconcile has returned twice in succession for the same object: the first
\* call ran through all its steps, no other actor has changed anything since
\* it started, and no call the second one made has failed
Twice(c) ==
    /\ Done(c)
    /\ prev[c].req # "" /\ prev[c].req = pass[c].req
    /\ prev[c].env0 = envLeft + netLeft
    /\ \A i \in DOMAIN pass[c].calls : pass[c].calls[i].ok

\* C3 as claimed: the second of two successive invocations with no
\* intervening change makes the same external calls as the first and
\* performs no status write
C3_AsClaimed ==
    \A c \in Nodes :
        Twice(c) =>
            /\ Ops(pass[c].calls) = Ops(prev[c].calls)
            /\ ~Made(pass[c], "UpdateStatus")

\* C3 amended: when the first invocation did not have to tear the link down,
\* the second of two successive invocations with no intervening change makes
\* the same external calls with the same arguments as the first, the status
\* write included, and that write leaves the stored object as it was read,
\* Status.LinkName matching already
C3_Idempotence ==
    \A c \in Nodes :
        (Twice(c) /\ ~Made(prev[c], "TearDownLink")) =>
            /\ pass[c].calls = prev[c].calls
            /\ Succeeded(pass[c], "UpdateStatus")
            /\ store[pass[c].req] = pass[c].got

\* a second invocation that ran through like the first
C3_Witness ==
    \E c \in Nodes :
        /\ Twice(c) /\ ~Made(prev[c], "TearDownLink")
        /\ RanThrough(pass[c])
        /\ pass[c].got.linkName = GetLinkName(pass[c].req)

(* ------------------------------------------------------------------ *)
(* C4: foreign objects.                                               *)
(* ------------------------------------------------------------------ *)

\* the call read an object of another node
ForeignPass(c) == Done(c) /\ pass[c].got.exists /\ NodeName(pass[c].req) # c

\* C4: a pass on an object whose Spec.NodeName is not the controller's node
\* returns success without requeue after the Get alone: no store write, no
\* Link Synchronizer call, no Metadata Provider call
C4_ForeignUntouched ==
    \A c \in Nodes :
        ForeignPass(c) =>
            /\ pass[c].res = Ok
            /\ Ops(pass[c].calls) = <<"Get">>
            /\ pass[c].req \notin tornDown
            /\ Quiet(pass[c]) => store[pass[c].req] = pass[c].got

\* a pass on a foreign object that is terminating, with its finalizer and
\* its hardware address
C4_Witness ==
    \E c \in Nodes :
        /\ ForeignPass(c)
        /\ pass[c].got.del /\ pass[c].got.fin /\ pass[c].got.mac # ""

(* ------------------------------------------------------------------ *)
(* C5: awaiting the hardware address.                                 *)
(* ------------------------------------------------------------------ *)

\* the call read a local object whose Status.MacAddress was empty
AwaitingPass(c) ==
    /\ Done(c)
    /\ pass[c].got.exists
    /\ NodeName(pass[c].req) = c
    /\ pass[c].got.mac = ""

\* C5: a pass on a local object with an empty Status.MacAddress returns no
\* error and a requeue after exactly 1 second, after the Get alone: no Link
\* Synchronizer call and no store write
C5_AwaitingAddress ==
    \A c \in Nodes :
        AwaitingPass(c) =>
            /\ pass[c].res = [kind |-> "ok", after |-> 1]
            /\ Ops(pass[c].calls) = <<"Get">>
            /\ Quiet(pass[c]) => store[pass[c].req] = pass[c].got

\* a pass on a local object without hardware address, here a terminating one
C5_Witness ==
    \E c \in Nodes : AwaitingPass(c) /\ pass[c].got.del /\ pass[c].got.fin

(* ------------------------------------------------------------------ *)
(* C6: hardware address not in the metadata.                          *)
(* ------------------------------------------------------------------ *)

\* GetMetadata answered, and the object's address was not in the answer
NotAttachedPass(c) ==
    /\ PastFilters(c)
    /\ Succeeded(pass[c], "GetMetadata")
    /\ pass[c].got.mac \notin pass[c].md

\* C6: when the Metadata Provider's answer does not hold the object's
\* hardware address the pass returns an error, makes none of GetLinkName,
\* the status write, ConfigureLink and SyncRoutes, and Status.LinkName in the
\* store is what the pass read
C6_NotOnNode ==
    \A c \in Nodes :
        NotAttachedPass(c) =>
            /\ pass[c].res = Err
            /\ \A op \in {"GetLinkName", "UpdateStatus", "ConfigureLink", "SyncRoutes"} :
                   ~Made(pass[c], op)
            /\ store[pass[c].req].exists =>
                   store[pass[c].req].linkName = pass[c].got.linkName

\* a pass that found the address missing, the link name resolved earlier
C6_Witness ==
    \E c \in Nodes : NotAttachedPass(c) /\ pass[c].got.linkName # ""

(* ------------------------------------------------------------------ *)
(* C7: route convergence.                                             *)
(* ------------------------------------------------------------------ *)

\* one Route per entry of Spec.Routes, in the order of the entries
Expected(entries) ==
    [i \in 1..Len(entries) |->
        [To |-> ParseIPNet(entries[i].To).net, Via |-> ParseIP(entries[i].Via)]]

\* the argument of the SyncRoutes call of a pass that ran through
Synced(p) == p.calls[Len(p.calls)].arg

\* C7: every SyncRoutes call is handed exactly the routes parsed from the
\* Spec.Routes the same pass read from the owning PrivateNetwork, one per
\* entry and in their order; a pass started after the last change of the
\* PrivateNetwork hands over the routes of the stored Spec.Routes, nothing else
C7_RouteConvergence ==
    \A c \in Nodes :
        \A i \in DOMAIN pass[c].calls :
            pass[c].calls[i].op = "SyncRoutes" =>
                /\ pass[c].calls[i].arg = Expected(pass[c].pn)
                /\ Quiet(pass[c]) =>
                       pass[c].calls[i].arg = Expected(pnets[pass[c].nic.owner[1]].routes)

\* two passes ran through, one before and one after the routes were
\* replaced, and each was handed the routes of its time
C7_Witness ==
    \E c \in Nodes :
        /\ Done(c) /\ RanThrough(pass[c]) /\ Quiet(pass[c])
        /\ prev[c].req = pass[c].req
        /\ netLeft < MaxNetChanges
        /\ Len(Synced(prev[c])) = 2
        /\ Len(Synced(pass[c])) = 1
        /\ \A j \in 1..2 : Synced(prev[c])[j] # Synced(pass[c])[1]

(* ------------------------------------------------------------------ *)
(* C8: fan-out completeness.                                          *)
(* ------------------------------------------------------------------ *)

\* how many requests of the last UpdateFunc call were for x
Requests(added, x) == Cardinality({ i \in DOMAIN added : added[i] = x })

\* C8: an UpdateFunc call for PrivateNetwork n whose List succeeds adds one
\* request for each stored NetworkInterface labeled n, whatever its state,
\* none for any other, and the queue holds them afterwards
C8_FanoutComplete ==
    [][ \A c \in Nodes, n \in PNs :
            ( /\ <<"update", n>> \in events[c]
              /\ <<"update", n>> \notin events'[c]
              /\ fanout'[c].listed )
            => /\ fanout'[c].pn = n
               /\ \A x \in NICs :
                      Requests(fanout'[c].added, x) =
                          IF store[x].exists /\ privateNetworkLabel(x) = n THEN 1 ELSE 0
               /\ queue'[c] =
                      queue[c] \cup { x \in NICs : store[x].exists /\ privateNetworkLabel(x) = n }
      ]_vars

\* a fan-out over two members, one of another node and terminating
C8_Witness ==
    \E c \in Nodes :
        /\ fanout[c].listed
        /\ fanout[c].added = <<"a", "b">>
        /\ store["b"].exists /\ store["b"].del
        /\ store["c"].exists

(* ------------------------------------------------------------------ *)
(* C9: no error swallowed.                                            *)
(* ------------------------------------------------------------------ *)

\* a route entry read by the pass did not parse
EntryFailed(p) ==
    \E i \in DOMAIN p.pn : ParseIPNet(p.pn[i].To).err \/ ParseIP(p.pn[i].Via) = NilIP

\* C9: past the NotFound and Foreign filters, Reconcile returns success only
\* when every call it made succeeded and every route entry it read parsed
C9_NoErrorSwallowed ==
    \A c \in Nodes :
        (PastFilters(c) /\ pass[c].res.kind = "ok") =>
            /\ \A i \in DOMAIN pass[c].calls : pass[c].calls[i].ok
            /\ ~EntryFailed(pass[c])

(* ------------------------------------------------------------------ *)
(* C10: missing owner reference.                                      *)
(* ------------------------------------------------------------------ *)

\* C10: a pass that reaches route syncing on an object without owner
\* reference returns an error, and the controller keeps running
C10_MissingOwnerIsError ==
    \A c \in Nodes :
        ( /\ PastFilters(c)
          /\ Len(pass[c].got.owner) = 0
          /\ Succeeded(pass[c], "ConfigureLink") )
        => /\ pass[c].res = Err
           /\ c \in alive

(* ------------------------------------------------------------------ *)
(* C11: the object is gone.                                           *)
(* ------------------------------------------------------------------ *)

\* the Get of the call failed
GetFailed(c) == Done(c) /\ ~pass[c].calls[1].ok

\* C11: when the Get answers NotFound the pass returns success without
\* requeue after the Get alone (no store write, no Link Synchronizer call,
\* no Metadata Provider call), and the key is not queued again; when the Get
\* fails otherwise the pass returns the error
C11_NotFoundIsSuccess ==
    \A c \in Nodes :
        GetFailed(c) =>
            /\ Ops(pass[c].calls) = <<"Get">>
            /\ pass[c].err = "NotFound" =>
                   /\ pass[c].res = Ok
                   /\ Quiet(pass[c]) =>
                          /\ ~store[pass[c].req].exists
                          /\ pass[c].req \notin queue[c]
            /\ pass[c].err # "NotFound" =>
                   /\ pass[c].res = Err
                   /\ pass[c].req \in queue[c]

\* a pass for an object the store removed once its finalizer was cleared
C11_Witness ==
    \E c \in Nodes :
        /\ GetFailed(c) /\ pass[c].err = "NotFound"
        /\ pass[c].req \in tornDown

(* ------------------------------------------------------------------ *)
(* C12: a store write that loses to a concurrent change.              *)
(* ------------------------------------------------------------------ *)

\* the pass of c is about to write a copy the store will refuse: the object
\* was changed or removed since the copy was read
Stale(c) == pass[c].pc \in {"update", "status"} /\ ~Accepts(pass[c].nic)

\* the last pass of c ended at a write the store refused
LostWrite(c) ==
    /\ Done(c)
    /\ pass[c].err \in {"Conflict", "NotFound"}
    /\ pass[c].calls[Len(pass[c].calls)].op \in {"Update", "UpdateStatus"}

\* C12: a finalizer-clearing Update or a status write of a copy the store
\* refuses (Conflict or NotFound) ends the pass there with an error: the
\* store is left as it is, no later step runs, the key is queued again, and
\* what the controller does next for the key is a new pass that begins with
\* a Get and works on the object as that Get read it
C12_LostWriteAbortsPass ==
    [][ \A c \in Nodes :
            /\ (Stale(c) /\ pass'[c] # pass[c]) =>
                   /\ pass'[c].pc = "done" /\ pass'[c].res = Err
                   /\ Len(pass'[c].calls) = Len(pass[c].calls) + 1
                   /\ ~pass'[c].calls[Len(pass'[c].calls)].ok
                   /\ store' = store
                   /\ pass'[c].req \in queue'[c]
            /\ (LostWrite(c) /\ pass'[c] # pass[c]) =>
                   /\ Ops(pass'[c].calls) = <<"Get">>
                   /\ pass'[c].calls[1].ok =>
                          /\ pass'[c].got = store[pass'[c].req]
                          /\ pass'[c].nic = store[pass'[c].req]
      ]_vars

\* a finalizer-clearing Update that lost to another writer of the object,
\* the link torn down and the key queued for the retry
C12_Witness ==
    \E c \in Nodes :
        /\ LostWrite(c) /\ pass[c].err = "Conflict"
        /\ pass[c].calls[Len(pass[c].calls)].op = "Update"
        /\ pass[c].req \in tornDown
        /\ pass[c].req \in queue[c]

(* ------------------------------------------------------------------ *)
(* C13: what the fan-out does not enqueue.                            *)
(* ------------------------------------------------------------------ *)

\* the handler of c takes the event in this step
Handled(c, type, n) == <<type, n>> \in events[c] /\ <<type, n>> \notin events'[c]

\* C13: the handling of a PrivateNetwork create or delete event adds no
\* request; the handling of an update event whose List fails adds no request
\* and drops the event for good; and, the NetworkInterface watch apart, a
\* request is added only by the handling of an update event whose List succeeded
C13_FanoutOnlyOnListedUpdate ==
    [][ \A c \in Nodes :
            /\ \A n \in PNs, type \in {"create", "delete"} :
                   Handled(c, type, n) => queue'[c] = queue[c] /\ fanout' = fanout
            /\ \A n \in PNs :
                   (Handled(c, "update", n) /\ ~fanout'[c].listed) =>
                       /\ queue'[c] = queue[c]
                       /\ fanout'[c].added = <<>>
                       /\ events'[c] = events[c] \ {<<"update", n>>}
            /\ (queue'[c] # queue[c] /\ store' = store) =>
                   \E n \in PNs : Handled(c, "update", n) /\ fanout'[c].listed
      ]_vars

\* the PrivateNetwork of a and b was deleted and the event handled: a and b
\* are in the store and no request for them is queued
C13_Witness ==
    \E c \in alive :
        /\ ~pnets["pn1"].exists
        /\ events[c] = {}
        /\ store["a"].exists /\ store["b"].exists
        /\ queue[c] \cap {"a", "b"} = {}

(* ------------------------------------------------------------------ *)
(* C14: the status is written before the link is configured.          *)
(* ------------------------------------------------------------------ *)

\* C14: in every pass, at any point, a ConfigureLink call comes right after
\* a status write that succeeded in the same pass and carried the name
\* GetLinkName returned for the object's hardware address, itself right
\* after that GetLinkName call; and whenever a pass has called ConfigureLink,
\* whatever failed then or later, Status.LinkName of the stored object is
\* that name
C14_StatusBeforeConfigure ==
    \A c \in Nodes :
        \A i \in DOMAIN pass[c].calls :
            pass[c].calls[i].op = "ConfigureLink" =>
                /\ i > 2
                /\ pass[c].calls[i - 1] =
                       Call("UpdateStatus", pass[c].req, << pass[c].linkName >>, TRUE)
                /\ pass[c].calls[i - 2] = Call("GetLinkName", pass[c].got.mac, <<>>, TRUE)
                /\ pass[c].calls[i].on = pass[c].got.mac
                /\ pass[c].linkName \in LinkNames
                /\ store[pass[c].req].exists =>
                       store[pass[c].req].linkName = pass[c].linkName

\* ConfigureLink failed in a pass that had resolved a link name other than
\* the one it read, and the store holds the resolved name
C14_Witness ==
    \E c \in Nodes :
        /\ Done(c) /\ pass[c].res = Err
        /\ pass[c].calls[Len(pass[c].calls)].op = "ConfigureLink"
        /\ pass[c].got.linkName # pass[c].linkName
        /\ store[pass[c].req].exists
        /\ store[pass[c].req].linkName = pass[c].linkName

(* ------------------------------------------------------------------ *)
(* C15: no partial route application.                                 *)
(* ------------------------------------------------------------------ *)

\* some entry of the routes has a To that is no CIDR
BadTo(entries) == \E i \in DOMAIN entries : ParseCIDR(entries[i].To).err

\* C15: a pass that read, from the owning PrivateNetwork, routes with an
\* entry whose To is no CIDR, at whatever position, returns an error right
\* after that read and never calls SyncRoutes, not even with the entries
\* that parse
C15_NoPartialRoutes ==
    \A c \in Nodes :
        BadTo(pass[c].pn) =>
            /\ pass[c].pc \in {"routes", "done"}
            /\ ~Made(pass[c], "SyncRoutes")
            /\ pass[c].routes = <<>>
            /\ Done(c) =>
                   /\ pass[c].res = Err
                   /\ pass[c].calls[Len(pass[c].calls)].op = "GetPrivateNetwork"
                   /\ pass[c].req \in queue[c]

\* a pass that returned the error for routes whose first entry parses and
\* whose second does not
C15_Witness ==
    \E c \in Nodes :
        /\ Done(c) /\ pass[c].res = Err
        /\ Len(pass[c].pn) = 2
        /\ ~ParseCIDR(pass[c].pn[1].To).err /\ ParseIP(pass[c].pn[1].Via) # NilIP
        /\ ParseCIDR(pass[c].pn[2].To).err
        /\ ~Made(pass[c], "SyncRoutes")

(* ------------------------------------------------------------------ *)
(* C16: one writer per object.                                        *)
(* ------------------------------------------------------------------ *)

\* the store writes and the Link Synchronizer calls
ActingOps == {"Update", "UpdateStatus", "TearDownLink", "GetLinkName", "ConfigureLink",
              "SyncRoutes"}

\* controller c, in its pass in progress or last returned, has written x to
\* the store or called the Link Synchronizer for the hardware address of x
Acts(c, x) ==
    \E i \in DOMAIN pass[c].calls :
        /\ pass[c].calls[i].op \in ActingOps
        /\ pass[c].calls[i].on \in {x, MacOf(x)}

\* C16: with a controller running on every node, whatever the interleaving
\* of their passes, a controller that writes a NetworkInterface to the store
\* or calls the Link Synchronizer for its hardware address is the one of
\* the node in Spec.NodeName: no two controllers act on the same object
C16_SingleWriter ==
    \A x \in NICs :
        /\ \A c \in Nodes : Acts(c, x) => c = NodeName(x)
        /\ Cardinality({ c \in Nodes : Acts(c, x) }) <= 1

\* both controllers are in a pass for b at the same moment: that of n2 has
\* torn its link down, that of n1 has read it and returned
C16_Witness ==
    /\ alive = Nodes
    /\ pass["n1"].req = "b" /\ pass["n1"].got.exists /\ pass["n1"].got.del
    /\ pass["n2"].req = "b" /\ Succeeded(pass["n2"], "TearDownLink")
    /\ pass["n2"].pc = "update"

(* ------------------------------------------------------------------ *)
(* C17: fall-through after teardown.                                  *)
(* ------------------------------------------------------------------ *)

\* the calls of a pass that tears down and runs through, in their order
AllSteps ==
    <<"Get", "TearDownLink", "Update", "GetMetadata", "GetLinkName", "UpdateStatus",
      "ConfigureLink", "GetPrivateNetwork", "SyncRoutes">>

\* the pass tore the link down and cleared the finalizer
TornDownPass(c) ==
    /\ TerminatingPass(c)
    /\ Succeeded(pass[c], "TearDownLink") /\ Succeeded(pass[c], "Update")

\* the pass stopped where a pass on a non-terminating object stops: after a
\* call that failed, on an address the metadata does not list, on a route
\* that does not parse, or for want of an owner reference
StoppedAsUsual(p) ==
    \/ ~p.calls[Len(p.calls)].ok
    \/ p.calls[Len(p.calls)].op = "GetMetadata" /\ ~Found(p.md, p.got)
    \/ p.calls[Len(p.calls)].op = "GetPrivateNetwork" /\ BadTo(p.pn)
    \/ p.calls[Len(p.calls)].op = "ConfigureLink" /\ p.res = Panic

\* C17: a pass that tore the link down and cleared the finalizer does not
\* return there: its next call is GetMetadata, and from there on it makes
\* the calls of steps 4-7 in their order, stopping early only where a pass
\* on a non-terminating object does, and otherwise ends with SyncRoutes
C17_FallThrough ==
    \A c \in Nodes :
        TornDownPass(c) =>
            /\ Made(pass[c], "GetMetadata")
            /\ Ops(pass[c].calls) = SubSeq(AllSteps, 1, Len(pass[c].calls))
            /\ \/ Ops(pass[c].calls) = AllSteps
               \/ StoppedAsUsual(pass[c])

\* a pass that tore the link down, cleared the finalizer and went on until
\* SyncRoutes succeeded, the object being kept by another finalizer
C17_Witness ==
    \E c \in Nodes :
        /\ TornDownPass(c)
        /\ RanThrough(pass[c])
        /\ Ops(pass[c].calls) = AllSteps

(* ------------------------------------------------------------------ *)
(* C18: the link after its teardown.                                  *)
(* ------------------------------------------------------------------ *)

\* controller c calls ConfigureLink or SyncRoutes in this step
Configures(c) == pass[c].pc \in {"configure", "syncroutes"} /\ pass'[c] # pass[c]

\* C18 as claimed: once TearDownLink has succeeded for a NetworkInterface, no
\* ConfigureLink or SyncRoutes call is made for its hardware address, in the
\* same pass or in a later one, other finalizers keeping the object or not
C18_AsClaimed ==
    [][ \A c \in Nodes : Configures(c) => pass[c].req \notin tornDown ]_vars

\* C18 amended: once TearDownLink has succeeded for a NetworkInterface, a
\* ConfigureLink or SyncRoutes call is made for its hardware address only by
\* a pass that read the object terminating and carrying another finalizer,
\* and whose status write succeeded: an object without other finalizer is
\* removed when its finalizer is cleared and gets no such call any more
C18_ConfiguredOnlyWhileKept ==
    [][ \A c \in Nodes :
            (Configures(c) /\ pass[c].req \in tornDown) =>
                /\ pass[c].got.del /\ pass[c].got.otherFin
                /\ Succeeded(pass[c], "UpdateStatus")
      ]_vars

\* a pass later than the one that tore the link down has configured the
\* link and synced its routes, the object being kept by another finalizer
C18_Witness ==
    \E c \in Nodes :
        /\ Done(c) /\ RanThrough(pass[c])
        /\ ~Made(pass[c], "TearDownLink")
        /\ pass[c].req \in tornDown
        /\ store[pass[c].req].exists /\ store[pass[c].req].otherFin

(* ------------------------------------------------------------------ *)
(* C19: the finalizer is cleared in the end.                          *)
(* ------------------------------------------------------------------ *)

\* x is in the store, terminating, with the finalizer marker, and the
\* controller of its node is running
AwaitsTeardown(x) ==
    /\ store[x].exists /\ store[x].del /\ store[x].fin
    /\ NodeName(x) \in alive

\* C19 as claimed: a local NetworkInterface that is terminating and carries
\* the finalizer marker has its finalizer cleared in the end, Status.MacAddress
\* empty or not
C19_AsClaimed ==
    \A x \in NICs : AwaitsTeardown(x) ~> Cleared(x)

\* C19 amended: a local NetworkInterface that is terminating, carries the
\* finalizer marker and has its Status.MacAddress has its finalizer cleared
\* in the end
C19_FinalizerCleared ==
    \A x \in NICs : (AwaitsTeardown(x) /\ store[x].mac # "") ~> Cleared(x)

\* the finalizer of an object was cleared, and the object removed, after a
\* client had requested its deletion or the provisioning flow had recorded
\* its hardware address
C19_Witness ==
    \E x \in marked :
        /\ envLeft < MaxEnv
        /\ x \in tornDown
        /\ ~store[x].exists
        /\ \E c \in alive : Done(c) /\ pass[c].req = x /\ pass[c].got.del /\ pass[c].got.fin

(* ------------------------------------------------------------------ *)
(* C20: the routes handed to SyncRoutes are whole.                    *)
(* ------------------------------------------------------------------ *)

\* C20: every Route of every SyncRoutes call has a To network and a Via
\* address that parsed: none has a nil Via
C20_RoutesWhole ==
    \A c \in Nodes :
        \A i \in DOMAIN pass[c].calls :
            pass[c].calls[i].op = "SyncRoutes" =>
                \A j \in DOMAIN pass[c].calls[i].arg :
                    /\ pass[c].calls[i].arg[j].To # NilIPNet
                    /\ pass[c].calls[i].arg[j].Via # NilIP

====
